---- MODULE Spec2Model ----
(***************************************************************************)
(* Model of the festival band service (src/main.rs): the one-time load of  *)
(* bands.json into the process-wide APP_STATE, the flattening loop, and    *)
(* the three request handlers of the router.                               *)
(***************************************************************************)
EXTENDS Integers, Sequences, FiniteSets

\* ---------------------------------------------------------------- bounds

\* Size of a source document: the number of festival, year and artist
\* entries it holds in total.
MaxDocSize == 6

\* Number of artists of the largest single-festival document of SpecSample.
MaxStore == 6

\* The count query parameter ranges over -MaxNegQuery .. MaxQuery, or is absent.
MaxNegQuery == 1

MaxQuery == 6

\* ----------------------------------------------------- program constants

\* params.count.unwrap_or(1).clamp(1, 5)
DefaultCount == 1

ClampMin == 1

ClampMax == 5

\* ----------------------------------------------------------- data values

FestivalNames == {"Lowlands", "Pinkpop"}

YearValues == {2015, 2016}

ArtistNames == {"A", "B"}

\* struct BandData { festivals }, with no festival yet.
EmptyBandData == [festivals |-> <<>>]

\* One entry of a source document, in document order: a festival header, a
\* year header (of the last festival) or an artist (of the last year).
Entries ==
    [kind : {"festival"}, name : FestivalNames, year : {0}]
        \cup [kind : {"year"}, name : {""}, year : YearValues]
        \cup [kind : {"artist"}, name : ArtistNames, year : {0}]

\* A year entry needs a festival before it, an artist entry a year of the
\* current festival.
RECURSIVE WellNested(_, _, _)
WellNested(es, i, ctx) ==
    IF i > Len(es) THEN TRUE
    ELSE IF es[i].kind = "festival" THEN WellNested(es, i + 1, "festival")
    ELSE IF es[i].kind = "year" THEN ctx # "none" /\ WellNested(es, i + 1, "year")
    ELSE ctx = "year" /\ WellNested(es, i + 1, "year")

AddEntry(doc, e) ==
    LET fs == doc.festivals
        nf == Len(fs)
    IN  IF e.kind = "festival"
        THEN [festivals |-> Append(fs, [name |-> e.name, years |-> <<>>])]
        ELSE IF e.kind = "year"
        THEN [festivals |->
                [fs EXCEPT ![nf].years =
                    Append(@, [year |-> e.year, artists |-> <<>>])]]
        ELSE LET ny == Len(fs[nf].years)
             IN  [festivals |->
                    [fs EXCEPT ![nf].years[ny].artists = Append(@, e.name)]]

RECURSIVE BuildDoc(_, _, _)
BuildDoc(es, i, doc) ==
    IF i > Len(es) THEN doc ELSE BuildDoc(es, i + 1, AddEntry(doc, es[i]))

\* Every BandData of at most MaxDocSize entries.
Documents ==
    { BuildDoc(es, 1, EmptyBandData) :
        es \in { s \in UNION { [1..n -> Entries] : n \in 0..MaxDocSize } :
                    WellNested(s, 1, "none") } }

\* One festival with one year of n artists, named A, B, A, B, ...
SampleDoc(n) ==
    [festivals |->
        << [name |-> "Lowlands",
            years |-> << [year |-> 2015,
                          artists |-> [i \in 1..n |->
                                        IF i % 2 = 1 THEN "A" ELSE "B"]] >>] >>]

SampleDocuments == { SampleDoc(n) : n \in 0..MaxStore }

\* bands.json as the process finds it: missing, not a BandData, or a BandData.
Files(docs) ==
    [status : {"absent", "malformed"}, doc : {EmptyBandData}]
        \cup [status : {"ok"}, doc : docs]

\* The count parameter of a query string: absent, or an integer.
Queries ==
    [present : {FALSE}, value : {0}]
        \cup [present : {TRUE}, value : (0 - MaxNegQuery)..MaxQuery]

\* ------------------------------------------------------------------ state

VARIABLES
    file,             \* bands.json
    pc,               \* position of main
    lazy,             \* state of the Lazy cell APP_STATE
    initCount,        \* how many times the Lazy closure has been entered
    band_data,        \* closure local: the parsed document
    it,               \* closure local: position of the three nested loops
    all_performances, \* closure local: the vector being built
    store,            \* APP_STATE's all_performances, once published
    resp              \* the response in flight on the client's connection

vars == <<file, pc, lazy, initCount, band_data, it, all_performances, store, resp>>

\* The connection is idle: no request is being answered.
NoResponse ==
    [endpoint |-> "none", status |-> 0, query |-> [present |-> FALSE, value |-> 0],
     count |-> 0, indices |-> <<>>, body |-> <<>>, error |-> ""]

InitWith(docs) ==
    /\ file \in Files(docs)
    /\ pc = "router"
    /\ lazy = "uninit"
    /\ initCount = 0
    /\ band_data = EmptyBandData
    /\ it = [festival |-> 1, year |-> 1, artist |-> 1]
    /\ all_performances = <<>>
    /\ store = <<>>
    /\ resp = NoResponse

Init == InitWith(Documents)

InitSample == InitWith(SampleDocuments)

\* ---------------------------------------------------------------- startup

\* main, line 111: Arc::clone(&APP_STATE) is the first and only dereference
\* of the Lazy cell; Lazy runs its closure only while the cell is empty.
ForceLazy ==
    /\ pc = "router"
    /\ lazy = "uninit"
    /\ lazy' = "running"
    /\ initCount' = initCount + 1
    /\ pc' = "read"
    /\ UNCHANGED <<file, band_data, it, all_performances, store, resp>>

\* A panic inside the closure unwinds through main: the cell is poisoned and
\* the process ends.
Panic ==
    /\ pc' = "panicked"
    /\ lazy' = "poisoned"
    /\ UNCHANGED <<file, initCount, band_data, it, all_performances, store, resp>>

\* fs::read_to_string("bands.json").expect(..)
ReadFailed ==
    /\ pc = "read"
    /\ file.status = "absent"
    /\ Panic

ReadOk ==
    /\ pc = "read"
    /\ file.status # "absent"
    /\ pc' = "parse"
    /\ UNCHANGED <<file, lazy, initCount, band_data, it, all_performances, store, resp>>

\* Variant: a document that does not parse is taken for an empty one
\* (unwrap_or_default in place of expect).
ParseFailedDefault ==
    /\ pc = "parse"
    /\ file.status = "malformed"
    /\ band_data' = EmptyBandData
    /\ all_performances' = <<>>
    /\ it' = [festival |-> 1, year |-> 1, artist |-> 1]
    /\ pc' = "flatten"
    /\ UNCHANGED <<file, lazy, initCount, store, resp>>

\* serde_json::from_str(&file_content).expect(..)
ParseFailed ==
    /\ pc = "parse"
    /\ file.status = "malformed"
    /\ Panic

ParseOk ==
    /\ pc = "parse"
    /\ file.status = "ok"
    /\ band_data' = file.doc
    /\ all_performances' = <<>>
    /\ it' = [festival |-> 1, year |-> 1, artist |-> 1]
    /\ pc' = "flatten"
    /\ UNCHANGED <<file, lazy, initCount, store, resp>>

\* The three nested for loops of the closure.
FestivalsLeft == it.festival <= Len(band_data.festivals)

CurFestival == band_data.festivals[it.festival]

YearsLeft == it.year <= Len(CurFestival.years)

CurYear == CurFestival.years[it.year]

ArtistsLeft == it.artist <= Len(CurYear.artists)

\* ArtistPerformance { name: artist, festival: festival.name.clone(), year: year.year }
NewPerformance ==
    [name |-> CurYear.artists[it.artist],
     festival |-> CurFestival.name,
     year |-> CurYear.year]

\* Variant: a performance already in the vector is not pushed again.
PushedUnique(v, p) ==
    IF \E i \in 1..Len(v) : v[i] = p THEN v ELSE Append(v, p)

Pushed(v, p) == Append(v, p)

FlattenPush ==
    /\ pc = "flatten"
    /\ FestivalsLeft /\ YearsLeft /\ ArtistsLeft
    /\ all_performances' = Pushed(all_performances, NewPerformance)
    /\ it' = [it EXCEPT !.artist = @ + 1]
    /\ UNCHANGED <<file, pc, lazy, initCount, band_data, store, resp>>

FlattenNextYear ==
    /\ pc = "flatten"
    /\ FestivalsLeft /\ YearsLeft /\ ~ArtistsLeft
    /\ it' = [it EXCEPT !.year = @ + 1, !.artist = 1]
    /\ UNCHANGED <<file, pc, lazy, initCount, band_data, all_performances, store, resp>>

FlattenNextFestival ==
    /\ pc = "flatten"
    /\ FestivalsLeft /\ ~YearsLeft
    /\ it' = [it EXCEPT !.festival = @ + 1, !.year = 1, !.artist = 1]
    /\ UNCHANGED <<file, pc, lazy, initCount, band_data, all_performances, store, resp>>

\* Variant: the closure may return from inside the loops.
FlattenFinishedEarly == TRUE

\* The closure returns only when the outer loop is exhausted.
FlattenFinished == ~FestivalsLeft

\* Arc::new(AppState { all_performances }) fills the cell; main hands the
\* clone to the router with with_state.
Publish ==
    /\ pc = "flatten"
    /\ FlattenFinished
    /\ store' = all_performances
    /\ lazy' = "ready"
    /\ pc' = "bind"
    /\ UNCHANGED <<file, initCount, band_data, it, all_performances, resp>>

\* TcpListener::bind(addr).await.unwrap(), then axum::serve.
BindOk ==
    /\ pc = "bind"
    /\ pc' = "serving"
    /\ UNCHANGED <<file, lazy, initCount, band_data, it, all_performances, store, resp>>

BindFailed ==
    /\ pc = "bind"
    /\ pc' = "panicked"
    /\ UNCHANGED <<file, lazy, initCount, band_data, it, all_performances, store, resp>>

\* ------------------------------------------------------- random sampling

Min(a, b) == IF a <= b THEN a ELSE b

\* Query<RandomBandParams> with count: Option<usize>: a count that is not an
\* unsigned integer does not deserialize, and axum's extractor answers 400 in
\* the handler's place.
QueryAccepted(q) == ~q.present \/ q.value >= 0

\* Variant: no upper limit.
ClampNoUpper(v, lo, hi) == IF v < lo THEN lo ELSE v

\* Variant: no lower limit.
ClampNoLower(v, lo, hi) == IF v > hi THEN hi ELSE v

\* usize::clamp
Clamp(v, lo, hi) == IF v < lo THEN lo ELSE IF v > hi THEN hi ELSE v

\* params.count.unwrap_or(1).clamp(1, 5)
EffectiveCount(q) ==
    Clamp(IF q.present THEN q.value ELSE DefaultCount, ClampMin, ClampMax)

\* indices.iter().position(|&x| x == t), 0 for None
Position(indices, t) ==
    IF \E p \in 1..Len(indices) : indices[p] = t
    THEN CHOOSE p \in 1..Len(indices) :
            indices[p] = t /\ \A r \in 1..(p - 1) : indices[r] # t
    ELSE 0

\* Variant: the drawn index is pushed without replacing an earlier equal one.
FloydRoundNoSwap(indices, j, t) == Append(indices, t)

\* choose_multiple samples the indices with rand's index::sample, which for
\* fewer than 12 indices is Floyd's algorithm.  One round, for the upper bound
\* j and the drawn t in 0..j: an index already taken is replaced by j, and t
\* is pushed.
FloydRound(indices, j, t) ==
    LET pos == Position(indices, t)
    IN  Append(IF pos # 0 THEN [indices EXCEPT ![pos] = j] ELSE indices, t)

\* for j in length - amount .. length, with draws[i] the i-th random number
RECURSIVE FloydLoop(_, _, _, _)
FloydLoop(indices, draws, i, first) ==
    IF i > Len(draws) THEN indices
    ELSE FloydLoop(FloydRound(indices, first + i - 1, draws[i]), draws, i + 1, first)

\* Variant: the first `amount` positions, whatever is drawn.
SampleIndicesFirst(draws, length, amount) == [i \in 1..amount |-> i - 1]

\* The zero-based indices chosen for a slice of `length` elements
SampleIndices(draws, length, amount) ==
    FloydLoop(<<>>, draws, 1, length - amount)

\* What the random source can give to the rounds: the i-th of `amount` draws
\* is uniform in 0..=j for j = length - amount + i - 1.
RECURSIVE DrawsUpTo(_, _, _)
DrawsUpTo(length, amount, i) ==
    IF i = 0 THEN {<<>>}
    ELSE { Append(d, t) : d \in DrawsUpTo(length, amount, i - 1),
                          t \in 0..(length - amount + i - 1) }

Draws(length, amount) == DrawsUpTo(length, amount, amount)

\* slice.choose_multiple(rng, amount): amount is capped by the slice's length
SampleAmount(slice, amount) == Min(amount, Len(slice))

\* .cloned().collect(): the elements at the chosen indices, in that order
Selection(slice, indices) == [i \in 1..Len(indices) |-> slice[indices[i] + 1]]

\* ---------------------------------------------------------------- handlers

RejectedQuery(q) ==
    [endpoint |-> "random", status |-> 400, query |-> q, count |-> 0,
     indices |-> <<>>, body |-> <<>>, error |-> "Failed to deserialize query string"]

\* Variant: an empty selection is answered as a success.
RandomResponseAlwaysOk(q, count, indices, selection) ==
    [endpoint |-> "random", status |-> 200, query |-> q, count |-> count,
     indices |-> indices, body |-> selection, error |-> ""]

\* if !random_selection.is_empty() { 200 } else { 404 }
RandomResponse(q, count, indices, selection) ==
    IF selection # <<>>
    THEN [endpoint |-> "random", status |-> 200, query |-> q, count |-> count,
          indices |-> indices, body |-> selection, error |-> ""]
    ELSE [endpoint |-> "random", status |-> 404, query |-> q, count |-> count,
          indices |-> indices, body |-> <<>>, error |-> "No performances found."]

\* GET /api/random-bands
RandomBands ==
    /\ pc = "serving"
    /\ resp = NoResponse
    /\ \E q \in Queries :
        IF ~QueryAccepted(q)
        THEN resp' = RejectedQuery(q)
        ELSE LET count == EffectiveCount(q)
                 amount == SampleAmount(store, count)
             IN  \E draws \in Draws(Len(store), amount) :
                    LET indices == SampleIndices(draws, Len(store), amount)
                    IN  resp' = RandomResponse(q, count, indices, Selection(store, indices))
    /\ UNCHANGED <<file, pc, lazy, initCount, band_data, it, all_performances, store>>

\* Variant: consecutive equal records are merged (Vec::dedup on the clone).
AllBandsResponseDedup(state) ==
    [endpoint |-> "all", status |-> 200, query |-> [present |-> FALSE, value |-> 0],
     count |-> 0, indices |-> <<>>,
     body |-> LET keep == { i \in 1..Len(state) : i = 1 \/ state[i] # state[i - 1] }
                  nth(k) == CHOOSE i \in keep : Cardinality({ r \in keep : r < i }) = k - 1
              IN  [k \in 1..Cardinality(keep) |-> state[nth(k)]],
     error |-> ""]

\* Json(state.all_performances.clone()) with the attachment headers
AllBandsResponse(state) ==
    [endpoint |-> "all", status |-> 200, query |-> [present |-> FALSE, value |-> 0],
     count |-> 0, indices |-> <<>>, body |-> state, error |-> ""]

\* Variant: the handler takes the vector out of the shared state instead of
\* cloning it.
AllBandsTaking ==
    /\ pc = "serving"
    /\ resp = NoResponse
    /\ resp' = [endpoint |-> "all", status |-> 200,
                query |-> [present |-> FALSE, value |-> 0], count |-> 0,
                indices |-> <<>>, body |-> store, error |-> ""]
    /\ store' = <<>>
    /\ UNCHANGED <<file, pc, lazy, initCount, band_data, it, all_performances>>

\* GET /api/all-bands
AllBands ==
    /\ pc = "serving"
    /\ resp = NoResponse
    /\ resp' = AllBandsResponse(store)
    /\ UNCHANGED <<file, pc, lazy, initCount, band_data, it, all_performances, store>>

\* GET /
Root ==
    /\ pc = "serving"
    /\ resp = NoResponse
    /\ resp' = [endpoint |-> "root", status |-> 200,
                query |-> [present |-> FALSE, value |-> 0], count |-> 0,
                indices |-> <<>>, body |-> <<>>, error |-> ""]
    /\ UNCHANGED <<file, pc, lazy, initCount, band_data, it, all_performances, store>>

\* The client reads the response; its connection can carry the next request.
Receive ==
    /\ resp # NoResponse
    /\ resp' = NoResponse
    /\ UNCHANGED <<file, pc, lazy, initCount, band_data, it, all_performances, store>>

Next ==
    \/ ForceLazy
    \/ ReadFailed
    \/ ReadOk
    \/ ParseFailed
    \/ ParseOk
    \/ FlattenPush
    \/ FlattenNextYear
    \/ FlattenNextFestival
    \/ Publish
    \/ BindOk
    \/ BindFailed
    \/ RandomBands
    \/ AllBands
    \/ Root
    \/ Receive

Spec == Init /\ [][Next]_vars

SpecSample == InitSample /\ [][Next]_vars

\* ------------------------------------------------- what the claims speak of

Range(f) == { f[i] : i \in DOMAIN f }

Max(a, b) == IF a >= b THEN a ELSE b

\* max(1, min(5, c)) for a supplied c, 1 for an absent count
LawCount(q) == IF q.present THEN Max(1, Min(5, q.value)) ELSE 1

\* The count is absent or an unsigned integer.
Unsigned(q) == ~q.present \/ q.value >= 0

\* The (festival, year, artist) positions of a document
Triples(doc) ==
    UNION { UNION { { <<f, y, a>> :
                        a \in 1..Len(doc.festivals[f].years[y].artists) } :
                    y \in 1..Len(doc.festivals[f].years) } :
            f \in 1..Len(doc.festivals) }

\* Document order: festival first, then year, then artist
Before(u, v) ==
    \/ u[1] < v[1]
    \/ u[1] = v[1] /\ u[2] < v[2]
    \/ u[1] = v[1] /\ u[2] = v[2] /\ u[3] < v[3]

RecordAt(doc, t) ==
    [name |-> doc.festivals[t[1]].years[t[2]].artists[t[3]],
     festival |-> doc.festivals[t[1]].name,
     year |-> doc.festivals[t[1]].years[t[2]].year]

\* The depth-first concatenation: the p-th record is the one of the position
\* with p - 1 positions before it.
Concatenation(doc) ==
    LET T == Triples(doc)
    IN  [p \in 1..Cardinality(T) |->
            RecordAt(doc, CHOOSE t \in T :
                            Cardinality({ u \in T : Before(u, t) }) = p - 1)]

RECURSIVE SeqSum(_)
SeqSum(ns) == IF ns = <<>> THEN 0 ELSE ns[1] + SeqSum(Tail(ns))

\* sum(len(year.artists) for festival in doc.festivals for year in festival.years)
ArtistTotal(doc) ==
    SeqSum([f \in 1..Len(doc.festivals) |->
        SeqSum([y \in 1..Len(doc.festivals[f].years) |->
            Len(doc.festivals[f].years[y].artists)])])

RECURSIVE Factorial(_)
Factorial(n) == IF n <= 0 THEN 1 ELSE n * Factorial(n - 1)

\* ----------------------------------------------------------------- claims

\* C1 as stated: for every requested count c, absent or any integer, a
\* random-bands request returns exactly min(max(1, min(5, c)), n) records.
C1_CardinalityAnyCount ==
    resp.endpoint = "random" =>
        Len(resp.body) = Min(LawCount(resp.query), Len(store))

\* C1, amended: for every requested count that is absent or a non-negative
\* integer and every store size n, a random-bands request returns exactly
\* min(effective_count, n) records; a negative count is refused with status
\* 400 and returns no record.
C1_Cardinality ==
    resp.endpoint = "random" =>
        IF Unsigned(resp.query)
        THEN Len(resp.body) = Min(LawCount(resp.query), Len(store))
        ELSE resp.status = 400 /\ resp.body = <<>>

\* A count above 5 against a 2-record store returns both records.
C1_Witness ==
    /\ resp.endpoint = "random"
    /\ resp.query.present /\ resp.query.value > 5
    /\ Len(store) = 2
    /\ Len(resp.body) = 2

\* C2: every record of a random-bands result is the record at a valid position
\* of the store, and no position is used twice.
C2_DistinctPositions ==
    (resp.endpoint = "random" /\ resp.status = 200) =>
        /\ Len(resp.indices) = Len(resp.body)
        /\ \A i \in 1..Len(resp.body) :
            /\ resp.indices[i] \in 0..(Len(store) - 1)
            /\ resp.body[i] = store[resp.indices[i] + 1]
        /\ \A i, j \in 1..Len(resp.body) :
            i # j => resp.indices[i] # resp.indices[j]

\* Two equal records of one result, taken from two positions of a store that
\* holds duplicates.
C2_Witness ==
    /\ resp.endpoint = "random" /\ resp.status = 200
    /\ \E i, j \in 1..Len(resp.body) :
        i # j /\ resp.body[i] = resp.body[j] /\ resp.indices[i] # resp.indices[j]

\* C3 as stated: for all integers c supplied as the count parameter, negative
\* ones included, the count used for sampling is max(1, min(5, c)), and 1 for
\* an absent count.
C3_ClampAnyInteger ==
    resp.endpoint = "random" => resp.count = LawCount(resp.query)

\* The selections a request with the count parameter q can give
Selections(q) ==
    LET amount == SampleAmount(store, EffectiveCount(q))
    IN  { Selection(store, SampleIndices(d, Len(store), amount)) :
            d \in Draws(Len(store), amount) }

\* C3, amended: for every non-negative integer c supplied as the count
\* parameter the count used for sampling is max(1, min(5, c)), and 1 for an
\* absent count; count=0 gives the selections of count=1; a negative count is
\* refused with status 400 before any sampling.
C3_ClampLaw ==
    /\ resp.endpoint = "random" =>
        IF Unsigned(resp.query)
        THEN resp.count = LawCount(resp.query) /\ resp.status # 400
        ELSE resp.status = 400 /\ resp.count = 0 /\ resp.indices = <<>>
    /\ pc = "serving" =>
        Selections([present |-> TRUE, value |-> 0])
            = Selections([present |-> TRUE, value |-> 1])

\* A request with count=0 that sampled one record.
C3_Witness ==
    /\ resp.endpoint = "random" /\ resp.status = 200
    /\ resp.query = [present |-> TRUE, value |-> 0]
    /\ resp.count = 1
    /\ Len(store) > 1

C5_ExportComplete ==
    resp.endpoint = "all" =>
        /\ resp.status = 200
        /\ Len(resp.body) = Len(store)
        /\ \A p \in 1..Len(store) : resp.body[p] = store[p]
        /\ resp.body = Concatenation(file.doc)

\* An export of a store with two equal neighbours.
C5_Witness ==
    /\ resp.endpoint = "all"
    /\ Len(resp.body) >= 3
    /\ resp.body[1] = resp.body[2]

\* C6: the flattened collection is the depth-first concatenation of the source
\* document, one record per artist entry, nothing reordered, merged or left
\* out; its length is the sum of the artist-list lengths and every record's
\* festival and year are those of a year of the source.
C6_Flattened ==
    lazy = "ready" =>
        /\ store = Concatenation(file.doc)
        /\ Len(store) = ArtistTotal(file.doc)
        /\ \A p \in 1..Len(store) :
            \E f \in 1..Len(file.doc.festivals) :
                \E y \in 1..Len(file.doc.festivals[f].years) :
                    /\ store[p].festival = file.doc.festivals[f].name
                    /\ store[p].year = file.doc.festivals[f].years[y].year

\* A collection built from two festivals, the second with the same artist as
\* the first.
C6_Witness ==
    /\ lazy = "ready"
    /\ Len(file.doc.festivals) = 2
    /\ Len(store) = 2
    /\ store[1].name = store[2].name
    /\ store[1].festival # store[2].festival

\* C7: the load-and-flatten initialization runs at most once, and it has
\* completed before a request is accepted: a handler sees the whole
\* collection.
C7_InitOnce ==
    /\ initCount <= 1
    /\ (pc = "serving" \/ resp # NoResponse) =>
        /\ initCount = 1
        /\ lazy = "ready"
        /\ ~FestivalsLeft
        /\ store = all_performances
        /\ Len(store) = ArtistTotal(file.doc)

\* A request answered from a collection of several records.
C7_Witness ==
    /\ resp.endpoint = "random" /\ resp.status = 200
    /\ initCount = 1
    /\ Len(store) >= 3

\* C8: with an absent or malformed bands.json the process never listens and
\* never answers a request.
C8_NoPartialService ==
    file.status # "ok" =>
        /\ pc \notin {"bind", "serving"}
        /\ lazy # "ready"
        /\ resp = NoResponse
        /\ store = <<>>

\* Startup ended by a document that does not parse.
C8_Witness ==
    /\ file.status = "malformed"
    /\ pc = "panicked"
    /\ lazy = "poisoned"

\* C9: once initialized, the collection is changed by no step: no request,
\* whatever its answer, alters its records or their order.
C9_StoreFrozen == [][lazy = "ready" => store' = store]_vars

\* A sampling answer, with the collection as the flattening left it.
C9_Witness ==
    /\ resp.endpoint = "random" /\ resp.status = 200
    /\ Len(store) >= 2
    /\ store = all_performances

\* C10: for a store of n records and every clamped count k, each set of
\* min(k, n) positions is the result of the same number of equally likely
\* outcomes of the random draws (and of at least one): min(k, n)! of them.
C10_Uniform ==
    (pc = "serving" /\ resp = NoResponse) =>
        \A k \in ClampMin..ClampMax :
            LET n == Len(store)
                m == SampleAmount(store, k)
            IN  \A S \in { X \in SUBSET (0..(n - 1)) : Cardinality(X) = m } :
                    Cardinality({ d \in Draws(n, m) :
                                    Range(SampleIndices(d, n, m)) = S })
                        = Factorial(m)

\* A result that is not the first positions of the store.
C10_Witness ==
    /\ resp.endpoint = "random" /\ resp.status = 200
    /\ Len(store) = MaxStore
    /\ Len(resp.indices) = ClampMax
    /\ Range(resp.indices) # 0..(ClampMax - 1)

====
